---------------------------- MODULE Spec2Model ----------------------------
(***************************************************************************)
(* A model of utils/synthesize_data.py: the excursion probability model    *)
(* (calculate_excursion_probability), the temperature sampler              *)
(* (generate_temperature) and the per-shipment loop of synthesize_data.    *)
(*                                                                         *)
(* Numbers.  Python floats are idealised as exact rationals [s, n, d]: a   *)
(* sign and a numerator and denominator that are arbitrary-precision       *)
(* naturals (little-endian sequences of base-10000 limbs), so that the     *)
(* ten-factor product is computed without overflow and without rounding.   *)
(* Times are whole minutes since 2024-01-01T00:00; temperatures are        *)
(* hundredths of a degree Celsius.                                         *)
(*                                                                         *)
(* Randomness.  Every call of the random module is a nondeterministic      *)
(* choice from a small set of values the call can return.                  *)
(***************************************************************************)
EXTENDS Integers, Sequences, FiniteSets, TLC

VARIABLES
    \* ---- synthesize_data ----
    pc,                         \* "loop": at the head of `for i in range(n)`; "done": returned;
                                \* "args" / "returned": a direct call of calculate_excursion_probability
    n,                          \* parameter n
    base_excursion_rate,        \* parameter base_excursion_rate
    facility_map,               \* construct_facility_map(facilities)
    i,                          \* number of completed iterations of the shipment loop
    shipment_routes,
    shipment_flights,
    shipment_events,
    shipment_temperatures,
    shipments_with_excursions,
    excursion_prob,             \* local of the latest iteration
    reading_count,              \* local of the latest iteration
    sampler_log,                \* the generate_temperature calls of the latest iteration
    \* ---- a direct call of calculate_excursion_probability ----
    args,                       \* the arguments of the call
    ret,                        \* its return value
    prev                        \* the previous call, [args, ret], or <<>>

vars == <<pc, n, base_excursion_rate, facility_map, i, shipment_routes, shipment_flights,
          shipment_events, shipment_temperatures, shipments_with_excursions,
          excursion_prob, reading_count, sampler_log, args, ret, prev>>

genVars == <<n, base_excursion_rate, facility_map, i, shipment_routes, shipment_flights,
             shipment_events, shipment_temperatures, shipments_with_excursions,
             excursion_prob, reading_count, sampler_log>>

callVars == <<args, ret, prev>>

-----------------------------------------------------------------------------
(* Arbitrary-precision naturals: little-endian limbs, no leading zero limb. *)

Limb == 100 * 100

RECURSIVE BigOf(_)
BigOf(k) == IF k = 0 THEN <<>> ELSE <<k % Limb>> \o BigOf(k \div Limb)

RECURSIVE BigAddC(_, _, _)
BigAddC(a, b, c) ==
    IF a = <<>> /\ b = <<>>
    THEN (IF c = 0 THEN <<>> ELSE <<c>>)
    ELSE LET x == IF a = <<>> THEN 0 ELSE Head(a)
             y == IF b = <<>> THEN 0 ELSE Head(b)
             s == x + y + c
         IN <<s % Limb>> \o BigAddC(IF a = <<>> THEN <<>> ELSE Tail(a),
                                    IF b = <<>> THEN <<>> ELSE Tail(b),
                                    s \div Limb)

BigAdd(a, b) == BigAddC(a, b, 0)

\* a * k for a limb-sized k (0 <= k < Limb)
RECURSIVE BigMulLimbC(_, _, _)
BigMulLimbC(a, k, c) ==
    IF a = <<>>
    THEN (IF c = 0 THEN <<>> ELSE <<c>>)
    ELSE LET s == Head(a) * k + c
         IN <<s % Limb>> \o BigMulLimbC(Tail(a), k, s \div Limb)

BigMulLimb(a, k) == IF k = 0 THEN <<>> ELSE BigMulLimbC(a, k, 0)

RECURSIVE BigMul(_, _)
BigMul(a, b) ==
    IF a = <<>> \/ b = <<>>
    THEN <<>>
    ELSE LET rest == BigMul(Tail(a), b)
         IN BigAdd(BigMulLimb(b, Head(a)), IF rest = <<>> THEN <<>> ELSE <<0>> \o rest)

\* -1, 0, 1 as a < b, a = b, a > b
RECURSIVE BigCmpFrom(_, _, _)
BigCmpFrom(a, b, k) ==
    IF k = 0 THEN 0
    ELSE IF a[k] < b[k] THEN -1
    ELSE IF a[k] > b[k] THEN 1
    ELSE BigCmpFrom(a, b, k - 1)

BigCmp(a, b) ==
    IF Len(a) < Len(b) THEN -1
    ELSE IF Len(a) > Len(b) THEN 1
    ELSE BigCmpFrom(a, b, Len(a))

\* a - b for a >= b, before the leading zero limbs are dropped
RECURSIVE BigSubC(_, _, _)
BigSubC(a, b, c) ==
    IF a = <<>>
    THEN <<>>
    ELSE LET y == IF b = <<>> THEN 0 ELSE Head(b)
             s == Head(a) - y - c
         IN <<IF s < 0 THEN s + Limb ELSE s>>
              \o BigSubC(Tail(a), IF b = <<>> THEN <<>> ELSE Tail(b), IF s < 0 THEN 1 ELSE 0)

RECURSIVE BigTrim(_)
BigTrim(a) ==
    IF a = <<>> THEN <<>>
    ELSE IF a[Len(a)] = 0 THEN BigTrim(SubSeq(a, 1, Len(a) - 1))
    ELSE a

BigSub(a, b) == BigTrim(BigSubC(a, b, 0))

-----------------------------------------------------------------------------
(* Rationals: sign s (1 or -1; 1 for zero), numerator n and denominator d. *)

Abs(k) == IF k < 0 THEN 0 - k ELSE k

Rat(a, b) == [s |-> IF a < 0 THEN -1 ELSE 1, n |-> BigOf(Abs(a)), d |-> BigOf(b)]

\* -1, 0 or 1
RatSign(x) == IF x.n = <<>> THEN 0 ELSE x.s

RatMul(x, y) ==
    LET m == BigMul(x.n, y.n)
    IN [s |-> IF m = <<>> THEN 1 ELSE x.s * y.s, n |-> m, d |-> BigMul(x.d, y.d)]

RatAdd(x, y) ==
    LET a == BigMul(x.n, y.d)
        b == BigMul(y.n, x.d)
        d == BigMul(x.d, y.d)
        c == BigCmp(a, b)
    IN IF x.s = y.s THEN [s |-> x.s, n |-> BigAdd(a, b), d |-> d]
       ELSE IF c = 0 THEN [s |-> 1, n |-> <<>>, d |-> d]
       ELSE IF c > 0 THEN [s |-> x.s, n |-> BigSub(a, b), d |-> d]
       ELSE [s |-> y.s, n |-> BigSub(b, a), d |-> d]

\* -1, 0, 1 as x < y, x = y, x > y
RatCmp(x, y) ==
    LET sx == RatSign(x)
        sy == RatSign(y)
    IN IF sx < sy THEN -1
       ELSE IF sx > sy THEN 1
       ELSE IF sx = 0 THEN 0
       ELSE sx * BigCmp(BigMul(x.n, y.d), BigMul(y.n, x.d))

RatEq(x, y) == RatCmp(x, y) = 0

RatLt(x, y) == RatCmp(x, y) < 0

RatLeq(x, y) == RatCmp(x, y) <= 0

\* Python's min(x, y): y if y < x, else x
RatMin(x, y) == IF RatLt(y, x) THEN y ELSE x

\* dict.get(key, default)
DictGet(dict, key, default) == IF key \in DOMAIN dict THEN dict[key] ELSE default

-----------------------------------------------------------------------------
(* calculate_excursion_probability *)

One == Rat(1, 1)

\* mutant: the map is not consulted
facility_factor_default(facility_pair, map) == RatAdd(One, Rat(2, 100))

\* facility_factor = 1.0 + facility_map.get(facility_pair, 0.02)
facility_factor(facility_pair, map) == RatAdd(One, DictGet(map, facility_pair, Rat(2, 100)))

carrier_factor(carrier) ==
    DictGet("Cryoport" :> Rat(7, 10) @@ "FedEx Health" :> Rat(12, 10) @@ "UPS ColdChain" :> Rat(10, 10),
            carrier, One)

product_factor(product_type) ==
    DictGet("Stem Cell" :> Rat(15, 10) @@ "CAR-T" :> Rat(12, 10) @@ "iPSC-derived" :> Rat(8, 10),
            product_type, One)

day_factor(day_of_week) ==
    DictGet("Monday" :> Rat(9, 10) @@ "Tuesday" :> Rat(85, 100) @@ "Wednesday" :> Rat(8, 10)
              @@ "Thursday" :> Rat(9, 10) @@ "Friday" :> Rat(11, 10) @@ "Saturday" :> Rat(13, 10)
              @@ "Sunday" :> Rat(12, 10),
            day_of_week, One)

season_factor(season) ==
    DictGet("winter" :> Rat(8, 10) @@ "spring" :> Rat(10, 10) @@ "summer" :> Rat(15, 10)
              @@ "fall" :> Rat(11, 10),
            season, One)

\* delay_factor = 1.0 + (delay_minutes / 300)
delay_factor(delay_minutes) == RatAdd(One, Rat(delay_minutes, 300))

airport_risk_map ==
    <<"JFK", "IAH">> :> Rat(12, 10) @@ <<"ORD", "JFK">> :> Rat(13, 10)
      @@ <<"BWI", "IAH">> :> Rat(9, 10) @@ <<"CLE", "JFK">> :> Rat(11, 10)
      @@ <<"IAH", "ORD">> :> Rat(12, 10)

\* mutant: no lookup of the reversed pair
airport_factor_direct(airport_pair) == DictGet(airport_risk_map, airport_pair, One)

\* the direct lookup, replaced by the lookup of the reversed pair when the pair is no key
airport_factor(airport_pair) ==
    IF airport_pair \notin DOMAIN airport_risk_map
    THEN DictGet(airport_risk_map, <<airport_pair[2], airport_pair[1]>>, One)
    ELSE DictGet(airport_risk_map, airport_pair, One)

\* flight_duration_factor = 1.0 + (flight_duration / 20); flight_duration is a rational
flight_duration_factor(flight_duration) == RatAdd(One, RatMul(flight_duration, Rat(1, 20)))

\* mutant: the flag is ignored
customs_factor_ignored(had_customs_hold) == One

customs_factor(had_customs_hold) == IF had_customs_hold THEN Rat(18, 10) ELSE One

\* shipment_duration_factor = 1.0 + (shipment_duration / 120)
shipment_duration_factor(shipment_duration) == RatAdd(One, Rat(shipment_duration, 120))

\* mutant: no cap
cap_probability_none(final_prob) == final_prob

\* return min(0.95, final_prob)
cap_probability(final_prob) == RatMin(Rat(95, 100), final_prob)

\* a is the record of the twelve arguments
calculate_excursion_probability(a) ==
    LET p0  == a.base_prob
        p1  == RatMul(p0, facility_factor(a.facility_pair, a.facility_map))
        p2  == RatMul(p1, carrier_factor(a.carrier))
        p3  == RatMul(p2, product_factor(a.product_type))
        p4  == RatMul(p3, day_factor(a.day_of_week))
        p5  == RatMul(p4, season_factor(a.season))
        p6  == RatMul(p5, delay_factor(a.delay_minutes))
        p7  == RatMul(p6, airport_factor(a.airport_pair))
        p8  == RatMul(p7, flight_duration_factor(a.flight_duration))
        p9  == RatMul(p8, customs_factor(a.had_customs_hold))
        p10 == RatMul(p9, shipment_duration_factor(a.shipment_duration))
    IN cap_probability(p10)

-----------------------------------------------------------------------------
(* The catalogs of synthesize_data and construct_facility_map *)

facilities ==
    << "Johns Hopkins Cell Therapy Lab (Baltimore, MD)",
       "Cleveland Clinic (Cleveland, OH)",
       "Mayo Clinic (Rochester, MN)",
       "MD Anderson (Houston, TX)",
       "UPenn Cell Therapy Center (Philadelphia, PA)",
       "Dana-Farber Cancer Institute (Boston, MA)" >>

airports == <<"BWI", "IAH", "JFK", "CLE", "ORD">>

carriers == <<"Cryoport", "FedEx Health", "UPS ColdChain">>

product_types == <<"Stem Cell", "CAR-T", "iPSC-derived">>

\* The increments random.uniform(0.01, 0.05) is taken to return, in hundredths.
RiskIncrements == <<1, 3, 5>>

\* The value random.uniform returns for the pair of catalog indices (a, b) in the
\* k-th assignment of increments; assignment 0 is the map of zero increments, which
\* only a direct call of calculate_excursion_probability is given.
RiskDraw(k, a, b) ==
    IF k = 0 THEN Rat(0, 100)
    ELSE Rat(RiskIncrements[((k * a + b) % Len(RiskIncrements)) + 1], 100)

\* One entry for every ordered pair of distinct facilities, with the k-th assignment.
construct_facility_map(fs, k) ==
    [pair \in {<<fs[a], fs[b]>> : a \in 1..Len(fs), b \in 1..Len(fs)} \ {<<f, f>> : f \in {fs[a] : a \in 1..Len(fs)}}
        |-> LET a == CHOOSE a \in 1..Len(fs) : fs[a] = pair[1]
                b == CHOOSE b \in 1..Len(fs) : fs[b] = pair[2]
            IN RiskDraw(k, a, b)]

\* The maps construct_facility_map is taken to build.
FacilityMaps == {construct_facility_map(facilities, 1), construct_facility_map(facilities, 2)}

-----------------------------------------------------------------------------
(* Dates: a time is a number of minutes since 2024-01-01T00:00. *)

MonthLengths(year) ==
    <<31, IF year % 4 = 0 THEN 29 ELSE 28, 31, 30, 31, 30, 31, 31, 30, 31, 30, 31>>

YearLength(year) == IF year % 4 = 0 THEN 366 ELSE 365

\* month and day of month of the day-th day (from 0) of the year
RECURSIVE MonthAndDay(_, _, _)
MonthAndDay(year, month, day) ==
    IF day < MonthLengths(year)[month]
    THEN <<month, day + 1>>
    ELSE MonthAndDay(year, month + 1, day - MonthLengths(year)[month])

RECURSIVE YearAndDay(_, _)
YearAndDay(year, day) ==
    IF day < YearLength(year) THEN <<year, day>> ELSE YearAndDay(year + 1, day - YearLength(year))

\* the fields of the datetime: <<year, month, day, hour, minute>>
DateTime(t) ==
    LET yd == YearAndDay(2024, t \div 1440)
        md == MonthAndDay(yd[1], 1, yd[2])
    IN <<yd[1], md[1], md[2], (t % 1440) \div 60, t % 60>>

\* datetime.isoformat() + 'Z': "YYYY-MM-DDTHH:MM:00Z", kept as its fields in the
\* order they are written, so that the order of the strings is the order of the tuples
IsoFormatZ(t) == DateTime(t)

\* date().isoformat(): "YYYY-MM-DD"
IsoDate(t) == SubSeq(DateTime(t), 1, 3)

get_season(t) ==
    LET month == DateTime(t)[2]
    IN IF month \in {12, 1, 2} THEN "winter"
       ELSE IF month \in {3, 4, 5} THEN "spring"
       ELSE IF month \in {6, 7, 8} THEN "summer"
       ELSE "fall"

\* strftime("%A"); 2024-01-01 is a Monday
get_day_of_week(t) ==
    <<"Monday", "Tuesday", "Wednesday", "Thursday", "Friday", "Saturday", "Sunday">>[((t \div 1440) % 7) + 1]

-----------------------------------------------------------------------------
(* generate_temperature *)

\* random.uniform(a, b) = a + (b - a) * u for the draw u, given in thousandths;
\* the result is in thousandths of a degree
Uniform(range, u) == range[1] * 1000 + (range[2] - range[1]) * u

\* round(x, 2) of a value in thousandths: hundredths, ties to even
Round2(x) ==
    LET q == x \div 10
        r == x % 10
    IN IF r < 5 THEN q
       ELSE IF r > 5 THEN q + 1
       ELSE IF q % 2 = 0 THEN q ELSE q + 1

normal_range == <<-80, -60>>

excursion_range == <<-59, -50>>

\* draw is the value of random.random(), u the draw of random.uniform
generate_temperature(prob, draw, u) ==
    IF RatLeq(draw, prob)
    THEN Round2(Uniform(excursion_range, u))
    ELSE Round2(Uniform(normal_range, u))

-----------------------------------------------------------------------------
(* synthesize_data: one iteration of the shipment loop *)

\* f"SHP{i:04}": the decimal digits of i, padded with zeros to four
RECURSIVE Digits(_)
Digits(k) == IF k < 10 THEN <<k>> ELSE Digits(k \div 10) \o <<k % 10>>

RECURSIVE PadZeros(_, _)
PadZeros(ds, width) == IF Len(ds) >= width THEN ds ELSE PadZeros(<<0>> \o ds, width)

ShipmentId(k) == <<"SHP">> \o PadZeros(Digits(k), 4)

Max(a, b) == IF a >= b THEN a ELSE b

\* mutant: no minimum of 6 readings
ReadingCountNoMin(shipment_duration_hours) == shipment_duration_hours \div 4

\* reading_count = max(6, shipment_duration_hours // 4)
ReadingCount(shipment_duration_hours) == Max(6, shipment_duration_hours \div 4)

\* mutant: the lower comparison is not strict
journey_factor_inclusive(j, count) ==
    IF j >= count \div 4 /\ j < (3 * count) \div 4 THEN Rat(12, 10) ELSE One

\* 1.2 if j > reading_count // 4 and j < 3 * reading_count // 4, else 1.0
journey_factor(j, count) ==
    IF j > count \div 4 /\ j < (3 * count) \div 4 THEN Rat(12, 10) ELSE One

\* mutant: compared with the lower end of the excursion range
IsExcursionAboveRange(temperature) == temperature > -5900

\* if temperature > -60
IsExcursion(temperature) == temperature > -6000

\* mutant: the customs_hold event is appended whatever the flag
ShipmentEventsAlwaysHold(shipment_id, start_time, end_time, shipment_duration_hours, had_customs_hold, customs_time, origin_facility, destination_facility, arr_airport) ==
    << [shipment_id |-> shipment_id, timestamp |-> IsoFormatZ(start_time),
        event_type |-> "pickup", location |-> origin_facility],
       [shipment_id |-> shipment_id, timestamp |-> IsoFormatZ(start_time + shipment_duration_hours * 30),
        event_type |-> "in_transit", location |-> <<"En route to", destination_facility>>],
       [shipment_id |-> shipment_id, timestamp |-> IsoFormatZ(end_time),
        event_type |-> "delivery", location |-> destination_facility] >>
    \o (IF TRUE
        THEN << [shipment_id |-> shipment_id, timestamp |-> IsoFormatZ(customs_time),
                 event_type |-> "customs_hold", location |-> arr_airport] >>
        ELSE << >>)

\* the events of one shipment, in the order they are appended
ShipmentEvents(shipment_id, start_time, end_time, shipment_duration_hours, had_customs_hold, customs_time, origin_facility, destination_facility, arr_airport) ==
    << [shipment_id |-> shipment_id, timestamp |-> IsoFormatZ(start_time),
        event_type |-> "pickup", location |-> origin_facility],
       [shipment_id |-> shipment_id, timestamp |-> IsoFormatZ(start_time + shipment_duration_hours * 30),
        event_type |-> "in_transit", location |-> <<"En route to", destination_facility>>],
       [shipment_id |-> shipment_id, timestamp |-> IsoFormatZ(end_time),
        event_type |-> "delivery", location |-> destination_facility] >>
    \o (IF had_customs_hold
        THEN << [shipment_id |-> shipment_id, timestamp |-> IsoFormatZ(customs_time),
                 event_type |-> "customs_hold", location |-> arr_airport] >>
        ELSE << >>)

\* the calls of generate_temperature of one shipment: for j = 0 .. count - 1 the
\* probability passed, the two draws and the temperature returned; rd[j] is the pair
\* of draws of the j-th reading.  The reading's time is j * (hours / count) hours
\* after the start (a whole number of minutes for the durations drawn here).
Readings(start_time, shipment_duration_hours, prob, count, rd) ==
    [k \in 1..count |->
        LET j == k - 1
            passed == RatMul(prob, journey_factor(j, count))
        IN [j |-> j,
            ts |-> start_time + (j * shipment_duration_hours * 60) \div count,
            prob |-> passed,
            draw |-> rd[j][1],
            u |-> rd[j][2],
            temperature |-> generate_temperature(passed, rd[j][1], rd[j][2])]]

\* rnd names, for every call of the random module, the values it may return;
\* reading_draws are the pairs <<random.random(), draw of random.uniform>> of a reading
\* whose index is in varied_readings, and fixed_draw is the pair of every other reading
Shipment(rnd) ==
    /\ pc = "loop"
    /\ i < n
    /\ \E origin_facility \in rnd.origins, carrier \in rnd.carriers,
          product_type \in rnd.product_types, day \in rnd.days,
          shipment_duration_hours \in rnd.durations, dep_airport \in rnd.departures,
          delay_minutes \in rnd.delays, flight_minutes \in rnd.flights,
          customs_draw \in rnd.customs_draws, customs_offset \in rnd.customs_offsets :
       \E destination_facility \in rnd.facilities \ {origin_facility},
          arr_airport \in rnd.airports \ {dep_airport} :
         LET shipment_id == ShipmentId(i)
             start_time == day * 1440
             end_time == start_time + shipment_duration_hours * 60
             day_of_week == get_day_of_week(start_time)
             season == get_season(start_time)
             scheduled_departure == start_time + 120
             actual_departure == scheduled_departure + delay_minutes
             arrival_time == actual_departure + flight_minutes
             had_customs_hold == RatLt(customs_draw, Rat(1, 10))
             customs_time == actual_departure + flight_minutes + customs_offset
             count == ReadingCount(shipment_duration_hours)
         IN \E prob \in {calculate_excursion_probability(
                            [ facility_pair     |-> <<origin_facility, destination_facility>>,
                              facility_map      |-> facility_map,
                              carrier           |-> carrier,
                              product_type      |-> product_type,
                              day_of_week       |-> day_of_week,
                              season            |-> season,
                              delay_minutes     |-> delay_minutes,
                              airport_pair      |-> <<dep_airport, arr_airport>>,
                              flight_duration   |-> Rat(flight_minutes, 60),
                              had_customs_hold  |-> had_customs_hold,
                              shipment_duration |-> shipment_duration_hours,
                              base_prob         |-> base_excursion_rate ])} :
            \E rd \in {f \in [0..(count - 1) -> rnd.reading_draws] :
                          \A j \in 0..(count - 1) : j \notin rnd.varied_readings => f[j] = rnd.fixed_draw} :
            \E readings \in {Readings(start_time, shipment_duration_hours, prob, count, rd)} :
              LET had_excursion_in_readings ==
                      \E k \in 1..count : IsExcursion(readings[k].temperature)
              IN /\ shipment_routes' = Append(shipment_routes,
                        [ shipment_id |-> shipment_id,
                          origin_facility |-> origin_facility,
                          destination_facility |-> destination_facility,
                          start_time |-> IsoDate(start_time),
                          end_time |-> DateTime(end_time),
                          carrier |-> carrier,
                          product_type |-> product_type,
                          delay_minutes |-> delay_minutes,
                          had_customs_hold |-> had_customs_hold,
                          day_of_week |-> day_of_week,
                          season |-> season ])
                 /\ shipment_events' = shipment_events \o
                        ShipmentEvents(shipment_id, start_time, end_time, shipment_duration_hours,
                                       had_customs_hold, customs_time, origin_facility,
                                       destination_facility, arr_airport)
                 /\ shipment_flights' = Append(shipment_flights,
                        [ shipment_id |-> shipment_id,
                          departure_airport |-> dep_airport,
                          arrival_airport |-> arr_airport,
                          scheduled_departure |-> IsoFormatZ(scheduled_departure),
                          actual_departure |-> IsoFormatZ(actual_departure),
                          delay_minutes |-> delay_minutes,
                          arrival_time |-> IsoFormatZ(arrival_time) ])
                 /\ shipment_temperatures' = shipment_temperatures \o
                        [k \in 1..count |->
                            [ shipment_id |-> shipment_id,
                              timestamp |-> IsoFormatZ(readings[k].ts),
                              temperature_c |-> readings[k].temperature ]]
                 /\ shipments_with_excursions' =
                        IF had_excursion_in_readings
                        THEN shipments_with_excursions \cup {shipment_id}
                        ELSE shipments_with_excursions
                 /\ excursion_prob' = prob
                 /\ reading_count' = count
                 /\ sampler_log' = readings
    /\ i' = i + 1
    /\ UNCHANGED <<pc, n, base_excursion_rate, facility_map>>
    /\ UNCHANGED callVars

\* the loop is over: the four tables and the excursion set are returned
Finish ==
    /\ pc = "loop"
    /\ i = n
    /\ pc' = "done"
    /\ UNCHANGED genVars
    /\ UNCHANGED callVars

CallIdle ==
    /\ args = <<>>
    /\ ret = Rat(0, 1)
    /\ prev = <<>>

GenInit(counts, rates, maps) ==
    /\ pc = "loop"
    /\ n \in counts
    /\ base_excursion_rate \in rates
    /\ facility_map \in maps
    /\ i = 0
    /\ shipment_routes = <<>>
    /\ shipment_flights = <<>>
    /\ shipment_events = <<>>
    /\ shipment_temperatures = <<>>
    /\ shipments_with_excursions = {}
    /\ excursion_prob = Rat(0, 1)
    /\ reading_count = 0
    /\ sampler_log = <<>>
    /\ CallIdle

-----------------------------------------------------------------------------
(* synthesize_data(n, base_excursion_rate) for n up to MaxShipments.  Two         *)
(* specifications of the same loop: Spec draws the journey of a shipment (its     *)
(* duration, delay, flight, customs hold) from many values and the readings from   *)
(* one; SpecTemps draws the readings from many values and the journey from one.    *)

MaxShipments == 2

JourneyRandom ==
    [ origins         |-> {facilities[1]},
      facilities      |-> {facilities[1], facilities[2]},
      carriers        |-> {"FedEx Health"},
      product_types   |-> {"Stem Cell"},
      days            |-> {5},
      durations       |-> {8, 28, 32, 48},
      departures      |-> {"JFK"},
      airports        |-> {"JFK", "IAH"},
      delays          |-> {0, 180},
      flights         |-> {270},
      customs_draws   |-> {Rat(5, 100), Rat(50, 100)},
      customs_offsets |-> {120},
      reading_draws   |-> {<<Rat(1, 2), 500>>},
      varied_readings |-> {},
      fixed_draw      |-> <<Rat(1, 2), 500>> ]

ReadingRandom ==
    [ origins         |-> {facilities[4]},
      facilities      |-> {facilities[4], facilities[6]},
      carriers        |-> {"Cryoport"},
      product_types   |-> {"iPSC-derived"},
      days            |-> {200},
      durations       |-> {8},
      departures      |-> {"CLE"},
      airports        |-> {"CLE", "BWI"},
      delays          |-> {60},
      flights         |-> {150},
      customs_draws   |-> {Rat(50, 100)},
      customs_offsets |-> {30},
      reading_draws   |-> {<<Rat(0, 1), 0>>, <<Rat(1, 2), 1000>>},
      varied_readings |-> {0, 2, 4, 5},
      fixed_draw      |-> <<Rat(1, 2), 1000>> ]

Init == GenInit(0..MaxShipments, {Rat(1, 100), Rat(1, 10)}, {construct_facility_map(facilities, 2)})

Next == Shipment(JourneyRandom) \/ Finish

Spec == Init /\ [][Next]_vars

TempsInit == GenInit(0..MaxShipments, {Rat(0, 1), Rat(1, 10), Rat(1, 1)}, FacilityMaps)

TempsNext == Shipment(ReadingRandom) \/ Finish

SpecTemps == TempsInit /\ [][TempsNext]_vars

-----------------------------------------------------------------------------
(* Direct calls of calculate_excursion_probability: a first call on arguments  *)
(* drawn from ProbInputs, then a second call on the same arguments with the     *)
(* customs flag flipped or the airport pair reversed.                           *)

BaseProbs == {Rat(0, 1), Rat(1, 100), Rat(1, 10), Rat(1, 1)}

\* every categorical argument, known and unknown values, numeric arguments neutral
InputsCategorical ==
    [ facility_pair     : {<<facilities[1], facilities[2]>>, <<facilities[1], facilities[1]>>},
      facility_map      : {construct_facility_map(facilities, 0),
                           construct_facility_map(facilities, 1)},
      carrier           : {"Cryoport", "FedEx Health", "UPS ColdChain", "DHL"},
      product_type      : {"Stem Cell", "CAR-T", "iPSC-derived", "Plasma"},
      day_of_week       : {"Tuesday", "Wednesday", "Saturday", "Someday"},
      season            : {"winter", "summer", "monsoon"},
      delay_minutes     : {0},
      airport_pair      : {<<"JFK", "IAH">>, <<"JFK", "BWI">>},
      flight_duration   : {Rat(0, 1)},
      had_customs_hold  : BOOLEAN,
      shipment_duration : {0},
      base_prob         : BaseProbs ]

\* the numeric arguments, inside and outside the ranges synthesize_data draws from
InputsNumeric ==
    [ facility_pair     : {<<facilities[2], facilities[1]>>},
      facility_map      : {construct_facility_map(facilities, 2)},
      carrier           : {"Cryoport", "FedEx Health"},
      product_type      : {"Stem Cell"},
      day_of_week       : {"Saturday"},
      season            : {"summer"},
      delay_minutes     : {-600, -300, -150, 0, 60, 180, 3000},
      airport_pair      : {<<"ORD", "JFK">>},
      flight_duration   : {Rat(-40, 1), Rat(0, 1), Rat(3, 2), Rat(9, 2)},
      had_customs_hold  : BOOLEAN,
      shipment_duration : {-240, 0, 8, 48},
      base_prob         : BaseProbs ]

\* every ordered pair of airports, and a pair of unknown airports
InputsAirports ==
    [ facility_pair     : {<<facilities[3], facilities[4]>>},
      facility_map      : {construct_facility_map(facilities, 0)},
      carrier           : {"UPS ColdChain", "Cryoport"},
      product_type      : {"Plasma"},
      day_of_week       : {"Someday"},
      season            : {"spring"},
      delay_minutes     : {0, 180},
      airport_pair      : {<<airports[a], airports[b]>> : a \in 1..Len(airports), b \in 1..Len(airports)}
                            \cup {<<"LAX", "SFO">>},
      flight_duration   : {Rat(0, 1)},
      had_customs_hold  : BOOLEAN,
      shipment_duration : {0},
      base_prob         : BaseProbs ]

ProbInputs == InputsCategorical \cup InputsNumeric \cup InputsAirports

\* the state of synthesize_data before its loop, with n = 0
GenIdle ==
    /\ n = 0
    /\ base_excursion_rate = Rat(1, 10)
    /\ facility_map = construct_facility_map(facilities, 0)
    /\ i = 0
    /\ shipment_routes = <<>>
    /\ shipment_flights = <<>>
    /\ shipment_events = <<>>
    /\ shipment_temperatures = <<>>
    /\ shipments_with_excursions = {}
    /\ excursion_prob = Rat(0, 1)
    /\ reading_count = 0
    /\ sampler_log = <<>>

ProbInit ==
    /\ pc = "args"
    /\ args \in ProbInputs
    /\ ret = Rat(0, 1)
    /\ prev = <<>>
    /\ GenIdle

Call ==
    /\ pc = "args"
    /\ ret' = calculate_excursion_probability(args)
    /\ pc' = "returned"
    /\ UNCHANGED <<args, prev>>
    /\ UNCHANGED genVars

\* the same call again, differing only in had_customs_hold
VaryCustoms ==
    /\ pc = "returned"
    /\ prev = <<>>
    /\ prev' = <<[args |-> args, ret |-> ret, varied |-> "had_customs_hold"]>>
    /\ args' = [args EXCEPT !.had_customs_hold = ~ @]
    /\ pc' = "args"
    /\ UNCHANGED ret
    /\ UNCHANGED genVars

\* the same call again, differing only in the order of airport_pair
VaryAirportPair ==
    /\ pc = "returned"
    /\ prev = <<>>
    /\ prev' = <<[args |-> args, ret |-> ret, varied |-> "airport_pair"]>>
    /\ args' = [args EXCEPT !.airport_pair = <<@[2], @[1]>>]
    /\ pc' = "args"
    /\ UNCHANGED ret
    /\ UNCHANGED genVars

ProbNext == Call \/ VaryCustoms \/ VaryAirportPair

SpecProb == ProbInit /\ [][ProbNext]_vars

-----------------------------------------------------------------------------
(* Properties of calculate_excursion_probability (SpecProb) *)

Cap == Rat(95, 100)

Zero == Rat(0, 1)

InUnitCap(p) == RatLeq(Zero, p) /\ RatLeq(p, Cap)

\* the six numeric and lookup factors that depend on unbounded arguments are >= 0
FactorsNonNegative(a) ==
    /\ a.delay_minutes >= -300
    /\ RatLeq(Rat(-20, 1), a.flight_duration)
    /\ a.shipment_duration >= -120
    /\ RatLeq(Rat(-1, 1), DictGet(a.facility_map, a.facility_pair, Rat(2, 100)))

\* ... and > 0
FactorsPositive(a) ==
    /\ a.delay_minutes > -300
    /\ RatLt(Rat(-20, 1), a.flight_duration)
    /\ a.shipment_duration > -120
    /\ RatLt(Rat(-1, 1), DictGet(a.facility_map, a.facility_pair, Rat(2, 100)))

\* C1 as stated: every call returns a value p with 0 <= p <= 0.95, whatever the
\* arguments (the base rate is >= 0 in every call of ProbInputs).
C1_AnyInputInRange == pc = "returned" => InUnitCap(ret)

\* C1 amended: a call whose delay, flight duration, shipment duration and facility
\* increment make none of the factors negative (delay_minutes >= -300,
\* flight_duration >= -20, shipment_duration >= -120, increment >= -1) returns a
\* value p with 0 <= p <= 0.95, for every base rate >= 0.
C1_InRange == (pc = "returned" /\ FactorsNonNegative(args)) => InUnitCap(ret)

\* a call on which the cap acted: the product of base rate and factors exceeds 0.95
C1_Witness ==
    /\ pc = "returned"
    /\ FactorsNonNegative(args)
    /\ args.delay_minutes = 3000
    /\ RatEq(args.base_prob, Rat(1, 10))
    /\ RatEq(ret, Cap)

\* the second of two calls that differ only in had_customs_hold, neither result at the cap
CustomsPair ==
    /\ pc = "returned"
    /\ prev # <<>>
    /\ prev[1].varied = "had_customs_hold"
    /\ RatLt(ret, Cap)
    /\ RatLt(prev[1].ret, Cap)

WithHold == IF args.had_customs_hold THEN ret ELSE prev[1].ret

WithoutHold == IF args.had_customs_hold THEN prev[1].ret ELSE ret

\* C6 as stated: of two calls that differ only in had_customs_hold, neither at the
\* cap, the one with the hold returns strictly more, namely 1.8 times the other,
\* for every base rate >= 0 and every value of the other arguments.
C6_StrictlyGreater ==
    CustomsPair => /\ RatLt(WithoutHold, WithHold)
                   /\ RatEq(WithHold, RatMul(Rat(18, 10), WithoutHold))

\* C6 amended: of two such calls the one with the hold returns 1.8 times the other;
\* it is strictly greater when the base rate is > 0 and every factor is positive
\* (with base rate 0 both calls return 0).
C6_Customs ==
    CustomsPair => /\ RatEq(WithHold, RatMul(Rat(18, 10), WithoutHold))
                   /\ (RatLt(Zero, args.base_prob) /\ FactorsPositive(args))
                         => RatLt(WithoutHold, WithHold)

\* two unclamped calls with a positive base rate, the second one with the hold
C6_Witness ==
    /\ CustomsPair
    /\ args.had_customs_hold
    /\ RatLt(Zero, args.base_prob)
    /\ FactorsPositive(args)
    /\ args.delay_minutes = 180
    /\ RatLt(prev[1].ret, ret)

\* every one of the ten factors evaluates to 1.0
AllNeutral(a) ==
    /\ a.facility_pair \in DOMAIN a.facility_map
    /\ RatEq(a.facility_map[a.facility_pair], Zero)
    /\ a.carrier \notin {"Cryoport", "FedEx Health"}
    /\ a.product_type \notin {"Stem Cell", "CAR-T", "iPSC-derived"}
    /\ a.day_of_week \notin {"Monday", "Tuesday", "Wednesday", "Thursday", "Friday", "Saturday", "Sunday"}
    /\ a.season \notin {"winter", "summer", "fall"}
    /\ a.delay_minutes = 0
    /\ a.airport_pair \notin DOMAIN airport_risk_map
    /\ <<a.airport_pair[2], a.airport_pair[1]>> \notin DOMAIN airport_risk_map
    /\ RatEq(a.flight_duration, Zero)
    /\ ~ a.had_customs_hold
    /\ a.shipment_duration = 0

\* C7 as stated: with all ten factors neutral the call returns base_rate exactly,
\* for every base rate.
C7_NeutralIsBase == (pc = "returned" /\ AllNeutral(args)) => RatEq(ret, args.base_prob)

\* C7 amended: with all ten factors neutral the call returns min(0.95, base_rate):
\* base_rate exactly for every base rate <= 0.95, and 0.95 for a larger one.
C7_Neutral ==
    (pc = "returned" /\ AllNeutral(args)) =>
        IF RatLeq(args.base_prob, Cap) THEN RatEq(ret, args.base_prob) ELSE RatEq(ret, Cap)

\* a neutral call with base rate 0.01
C7_Witness ==
    /\ pc = "returned"
    /\ AllNeutral(args)
    /\ args.carrier = "UPS ColdChain"
    /\ RatEq(args.base_prob, Rat(1, 100))
    /\ RatEq(ret, Rat(1, 100))

\* exactly one of (X, Y) and (Y, X) is a key of the airport risk table
OneDirection(pair) ==
    (pair \in DOMAIN airport_risk_map) # (<<pair[2], pair[1]>> \in DOMAIN airport_risk_map)

\* C8: two calls that differ only in the order of the airport pair return the same
\* value when exactly one direction is a key of the airport risk table; a pair absent
\* in both directions gets the factor 1.0.
C8_OrderTolerant ==
    (pc = "returned" /\ prev # <<>> /\ prev[1].varied = "airport_pair") =>
        /\ OneDirection(args.airport_pair) => RatEq(ret, prev[1].ret)
        /\ (~ OneDirection(args.airport_pair) /\ args.airport_pair \notin DOMAIN airport_risk_map)
              => /\ RatEq(airport_factor(args.airport_pair), One)
                 /\ RatEq(ret, calculate_excursion_probability(
                                   [args EXCEPT !.airport_pair = <<"LAX", "SFO">>]))

\* the second call looks up (JFK, ORD), which is a key only in the other direction
C8_Witness ==
    /\ pc = "returned"
    /\ prev # <<>>
    /\ prev[1].varied = "airport_pair"
    /\ args.airport_pair = <<"JFK", "ORD">>
    /\ RatLt(Zero, ret)
    /\ RatLt(ret, Cap)
    /\ RatEq(ret, prev[1].ret)

-----------------------------------------------------------------------------
(* Properties of the shipment loop (Spec: journeys; SpecTemps: readings) *)

\* the positions of the events of shipment id in shipment_events
EventsOf(id) == {x \in 1..Len(shipment_events) : shipment_events[x].shipment_id = id}

EventCount(id, type) == Cardinality({x \in EventsOf(id) : shipment_events[x].event_type = type})

\* the positions of the readings of shipment id in shipment_temperatures
ReadingsOf(id) == {x \in 1..Len(shipment_temperatures) : shipment_temperatures[x].shipment_id = id}

\* lexicographic order of two timestamps, as the order of their strings
RECURSIVE TsLeqFrom(_, _, _)
TsLeqFrom(a, b, k) ==
    IF k > Len(a) THEN TRUE
    ELSE IF a[k] < b[k] THEN TRUE
    ELSE IF a[k] > b[k] THEN FALSE
    ELSE TsLeqFrom(a, b, k + 1)

TsLeq(a, b) == TsLeqFrom(a, b, 1)

\* C2: after i shipments (at every loop head and at the return, where i = n) there
\* are exactly i route rows and i flight rows, between 3i and 4i event rows and at
\* least 6i temperature rows.
C2_RowCounts ==
    /\ Len(shipment_routes) = i
    /\ Len(shipment_flights) = i
    /\ 3 * i <= Len(shipment_events)
    /\ Len(shipment_events) <= 4 * i
    /\ Len(shipment_temperatures) >= 6 * i
    /\ pc = "done" => i = n

\* a finished run of two shipments, one with a customs hold, one of 6 and one of 12 readings
C2_Witness ==
    /\ pc = "done"
    /\ n = 2
    /\ Len(shipment_routes) = 2
    /\ Len(shipment_events) = 7
    /\ Len(shipment_temperatures) = 18

\* C3: every shipment has exactly one pickup, one in_transit and one delivery event,
\* and one customs_hold event exactly if its had_customs_hold flag is set: 3 events
\* without the flag and 4 with it; every event carries the ID of a shipment.
C3_EventSet ==
    /\ \A k \in 1..Len(shipment_routes) :
         LET id == shipment_routes[k].shipment_id
             hold == shipment_routes[k].had_customs_hold
         IN /\ EventCount(id, "pickup") = 1
            /\ EventCount(id, "in_transit") = 1
            /\ EventCount(id, "delivery") = 1
            /\ EventCount(id, "customs_hold") = (IF hold THEN 1 ELSE 0)
            /\ Cardinality(EventsOf(id)) = (IF hold THEN 4 ELSE 3)
    /\ \A x \in 1..Len(shipment_events) :
         /\ \E k \in 1..Len(shipment_routes) :
              shipment_routes[k].shipment_id = shipment_events[x].shipment_id
         /\ shipment_events[x].event_type \in {"pickup", "in_transit", "delivery", "customs_hold"}

\* two shipments, the first with a customs hold and the second without
C3_Witness ==
    /\ i = 2
    /\ shipment_routes[1].had_customs_hold
    /\ ~ shipment_routes[2].had_customs_hold
    /\ Cardinality(EventsOf(ShipmentId(0))) = 4
    /\ Cardinality(EventsOf(ShipmentId(1))) = 3

\* the probability passed for a reading is excursion_prob times 1.2 if middle, else times 1.0
PassedIs(e, middle) ==
    RatEq(e.prob, RatMul(excursion_prob, IF middle THEN Rat(12, 10) ELSE Rat(10, 10)))

\* C9 as stated: the probability passed to the sampler for reading j of R is the
\* shipment's probability times 1.2 exactly when R/4 < j < 3R/4 with exact quotients,
\* and times 1.0 otherwise.
C9_ExactQuotients ==
    \A k \in DOMAIN sampler_log :
        LET e == sampler_log[k]
        IN PassedIs(e, 4 * e.j > reading_count /\ 4 * e.j < 3 * reading_count)

\* C9 amended: the probability passed to the sampler for reading j of R (6 <= R <= 12,
\* one call per j in 0 .. R-1) is the shipment's probability times 1.2 exactly when
\* R/4 < j and j + 1 <= 3R/4, that is floor(R/4) < j < floor(3R/4) with truncated
\* quotients, and times 1.0 otherwise.
C9_JourneyFactor ==
    /\ Len(sampler_log) = reading_count
    /\ i > 0 => reading_count \in 6..12
    /\ \A k \in DOMAIN sampler_log :
        LET e == sampler_log[k]
        IN /\ e.j = k - 1
           /\ PassedIs(e, 4 * e.j > reading_count /\ 4 * (e.j + 1) <= 3 * reading_count)

\* a shipment of 7 readings: reading 4 is weighted, reading 5 (below 3R/4 = 5.25) is not
C9_Witness ==
    /\ reading_count = 7
    /\ RatLt(Zero, excursion_prob)
    /\ RatEq(sampler_log[5].prob, RatMul(excursion_prob, Rat(12, 10)))
    /\ RatEq(sampler_log[6].prob, excursion_prob)

\* C10: the events of every shipment are in chronological order in the order they
\* are appended, and a customs_hold event is not later than the delivery event.
C10_Chronological ==
    \A x \in 1..Len(shipment_events), y \in 1..Len(shipment_events) :
        (x < y /\ shipment_events[x].shipment_id = shipment_events[y].shipment_id)
            => TsLeq(shipment_events[x].timestamp, shipment_events[y].timestamp)

InRange(t, range) == range[1] * 100 <= t /\ t <= range[2] * 100

\* C4: a shipment ID is in shipments_with_excursions exactly if one of the readings
\* recorded for that shipment is greater than -60, which is exactly if one of them
\* lies in the excursion range rather than the normal range; the set holds no other IDs.
C4_ExcursionSet ==
    /\ \A k \in 1..Len(shipment_routes) :
         LET id == shipment_routes[k].shipment_id
         IN /\ id \in shipments_with_excursions
                 <=> \E x \in ReadingsOf(id) : shipment_temperatures[x].temperature_c > -6000
            /\ id \in shipments_with_excursions
                 <=> \E x \in ReadingsOf(id) :
                        InRange(shipment_temperatures[x].temperature_c, excursion_range)
    /\ \A x \in 1..Len(shipment_temperatures) :
         \/ InRange(shipment_temperatures[x].temperature_c, excursion_range)
         \/ InRange(shipment_temperatures[x].temperature_c, normal_range)
    /\ shipments_with_excursions \subseteq
         {shipment_routes[k].shipment_id : k \in 1..Len(shipment_routes)}

\* two shipments: the first has a reading of -59.00 and is in the set, the second
\* has only readings of -60.00 and is not
C4_Witness ==
    /\ i = 2
    /\ shipments_with_excursions = {ShipmentId(0)}
    /\ \E x \in ReadingsOf(ShipmentId(0)) : shipment_temperatures[x].temperature_c = -5900
    /\ \A x \in ReadingsOf(ShipmentId(1)) : shipment_temperatures[x].temperature_c = -6000

\* C5: with base_excursion_rate = 0 the probability passed to the sampler is 0 for
\* every reading, and the sampler, called with probability 0, returns a value of the
\* normal range whatever random.random() draws: no reading is in the excursion range.
C5_ZeroNeverExcursion ==
    RatEq(base_excursion_rate, Zero) =>
        /\ \A k \in DOMAIN sampler_log :
              /\ RatEq(sampler_log[k].prob, Zero)
              /\ InRange(sampler_log[k].temperature, normal_range)
        /\ \A x \in 1..Len(shipment_temperatures) :
              InRange(shipment_temperatures[x].temperature_c, normal_range)

=============================================================================
